---- MODULE Spec2Model ----
(***************************************************************************)
(* Resilient orchestration layer of the crypto analysis worker:            *)
(*   - the batch pipeline handleRun / analyzeCoin / fetchAllTimeframes /   *)
(*     sendTelegram / sendErrorMessage (controllers/analysis.ts and the    *)
(*     services it calls),                                                 *)
(*   - the retrying fetch fetchWithRetryEnhanced / fetchWithRetry,         *)
(*   - the CircuitBreaker class.                                           *)
(* Each component has its own specification over the same variables; the   *)
(* variables of the other components stay at their initial values.         *)
(***************************************************************************)
EXTENDS Integers, Sequences, FiniteSets, TLC

(***************************************************************************)
(* Bounds of the model and program constants                               *)
(***************************************************************************)
\* longest symbol list explored
MaxCoins == 5
\* most segments chunkForTelegram yields for one message
MaxChunks == 2
\* attempts every call site of the pipeline passes to fetchWithRetryEnhanced
Attempts == 3
\* number of entries of TIMEFRAMES
NumTimeframes == 3
\* the ids of TIMEFRAMES, in order
TimeframeIds == <<"15m", "1h", "1d">>

\* DEFAULT_SYMBOLS
DefaultSymbols == <<"BTC", "ETH", "SOL", "XRP", "TRX", "XLM", "ADA", "DOT", "BNB">>

\* the symbol lists buildSymbolList returns here: never empty; lists of distinct
\* symbols and lists that repeat one symbol (SYMBOLS = "BTC,BTC")
SymbolLists ==
    {[i \in 1..n |-> DefaultSymbols[i]] : n \in 1..MaxCoins}
        \cup {[i \in 1..n |-> DefaultSymbols[1]] : n \in 2..MaxCoins}

VARIABLES
    \* ---- batch pipeline (handleRun) ----
    coins,            \* const coins = buildSymbolList(env)
    pc,               \* position of the run
    idx,              \* position of the for..of loop in coins (1-based)
    tf,               \* position of the loop over TIMEFRAMES in fetchAllTimeframes
    att,              \* loop variable i of the fetchWithRetryEnhanced in progress
    tgIdx,            \* index of the chunk sendTelegram is sending (1-based)
    tgTotal,          \* chunks.length of the message being sent
    err,              \* the error caught and re-thrown by the current catch block
    successfulCoins,  \* handleRun's successfulCoins
    failedCoins,      \* handleRun's failedCoins
    result,           \* the object handleRun returns
    \* ---- history of the run (not read by the program) ----
    attempted,        \* indices for which analyzeCoin was invoked, in order
    stageFailed,      \* indices one of whose stages raised
    shared,           \* the shared stage that failed, or "none"
    summary,          \* "none", "sent" or "failed": fate of the summary message
    logged,           \* the failures written with logger.error: <<catch block, item>>
    notified,         \* the failures whose sendErrorMessage called sendTelegram
    stagesRun,        \* history: the stages started for the current coin, in order
    stagesDone,       \* history: the stages of the current coin that returned real data
    lostAt,           \* positions whose error message could not be delivered
    tgSent,           \* indices of the chunks delivered by the latest sendTelegram
    tgFailed,         \* index of the chunk on which the latest sendTelegram threw, 0 = none
    reportLost,       \* the report of the coin in progress could not be delivered
    response,         \* the answer of handleManualRun to POST /run
    \* ---- one call of fetchWithRetryEnhanced / fetchWithRetry ----
    rVariant,         \* "enhanced" (utils/http.ts) or "fixed" (the first worker)
    rAttempts,        \* parameter attempts
    rBackoff,         \* parameter backoffMs
    rPc,              \* "idle", "attempt", "sleep", "returned" or "threw"
    rI,               \* loop variable i
    rLastErr,         \* lastErr: the attempt (1-based) whose error it holds, 0 = undefined
    rThrown,          \* the attempt whose error was thrown to the caller, 0 = none
    rReturned,        \* the attempt whose response was returned, 0 = none
    rCalls,           \* history: number of invocations of fetch
    rTrace,           \* history: the fetches and sleeps of the call, in order
    rOutcomes,        \* history: how each fetch ended: "ok", "status" or "raise"
    rLog,             \* the entries the call wrote with logger.warn, in order
    \* ---- one CircuitBreaker and the execute calls made through it ----
    cbFailureThreshold, \* constructor parameter failureThreshold
    cbResetTimeout,   \* constructor parameter resetTimeout
    cbState,          \* field state
    cbFailures,       \* field failures
    cbLastFailureTime, \* field lastFailureTime
    cbNow,            \* Date.now()
    cbInFlight,       \* execute calls awaiting their fn()
    cbInvocations,    \* history: number of invocations of a wrapped fn
    cbRejections,     \* history: number of calls rejected with "Circuit breaker is OPEN"
    cbConsecutive,    \* history: failed calls completed since the last successful one
    cbLastFailedAt,   \* history: time at which a call last failed, -1 = never
    cbProbes,         \* history: number of calls let through an OPEN breaker
    cbLast,           \* history: what the call that ended last gave its caller
    \* ---- one RateLimiter and the waitForSlot calls made on it ----
    rlMaxRequests,    \* constructor parameter maxRequests
    rlWindowMs,       \* constructor parameter windowMs
    rlRequests,       \* field requests
    rlNow,            \* Date.now()
    rlWaiting,        \* calls suspended in sleep(waitTime): their now and wake-up time
    rlCalls,          \* history: number of calls of waitForSlot
    rlAdmissions,     \* history: the instants at which waitForSlot returned, in order
    \* ---- one call of chunkForTelegram ----
    chHtml,           \* parameter html
    chMaxLength,      \* parameter maxLength
    chPc,             \* "idle", "entry", "loop" or "returned"
    chStart,          \* local start
    chChunks,         \* local chunks, then the array returned
    chCuts,           \* history: the offset at which each chunk ends
    \* ---- the worker: the invocations of its entry points that overlap ----
    wEntry,           \* per invocation: "none", "scheduled", "run" or "test"
    wPos,             \* per invocation: the call site its run has reached
    wCall,            \* per invocation: the dependency whose answer it awaits, or "none"
    \* ---- one call of handleTelegramWebhook ----
    whUpdate,         \* the request body: "malformed", "noMessage", "empty" or a symbol
    whPc,             \* "idle", "entry", "ack", "run", "reply", "hint" or "done"
    whAtt,            \* attempts sendTelegram has made for the current message
    whRunOk,          \* result.ok of the handleRun the update triggered
    whStatus          \* status of the Response returned, 0 = none yet

ctl == <<pc, tf, att, tgIdx, tgTotal>>
lists == <<successfulCoins, failedCoins>>
hist == <<attempted, stageFailed, shared, summary, logged>>
pipeVars == <<coins, pc, idx, tf, att, tgIdx, tgTotal, err, successfulCoins,
              failedCoins, result, attempted, stageFailed, shared, summary, logged,
              notified, stagesRun, stagesDone, lostAt, tgSent, tgFailed,
              reportLost, response>>

\* what only handleManualRun and the bookkeeping of deliveries write
delivery == <<lostAt, tgSent, tgFailed, reportLost, response, notified>>
seen == <<delivery, stagesRun, stagesDone>>

NoResponse == [status |-> 0, ok |-> FALSE, hasCoins |-> FALSE, coins |-> <<>>]

retryVars == <<rVariant, rAttempts, rBackoff, rPc, rI, rLastErr, rThrown,
               rReturned, rCalls, rTrace, rOutcomes, rLog>>

cbVars == <<cbFailureThreshold, cbResetTimeout, cbState, cbFailures,
            cbLastFailureTime, cbNow, cbInFlight, cbInvocations, cbRejections,
            cbConsecutive, cbLastFailedAt, cbProbes, cbLast>>

rlVars == <<rlMaxRequests, rlWindowMs, rlRequests, rlNow, rlWaiting, rlCalls,
            rlAdmissions>>

chVars == <<chHtml, chMaxLength, chPc, chStart, chChunks, chCuts>>

wkVars == <<wEntry, wPos, wCall>>

whVars == <<whUpdate, whPc, whAtt, whRunOk, whStatus>>

vars == <<pipeVars, retryVars, cbVars, rlVars, chVars, wkVars, whVars>>

\* a step of the pipeline leaves the other components alone
PipelineOnly == UNCHANGED <<retryVars, cbVars, rlVars, chVars, wkVars, whVars>>

\* a step of the retrying fetch leaves the other components alone
RetryOnly == UNCHANGED <<pipeVars, cbVars, rlVars, chVars, wkVars, whVars>>

\* a step of the breaker leaves the other components alone
BreakerOnly == UNCHANGED <<pipeVars, retryVars, rlVars, chVars, wkVars, whVars>>

\* a step of the limiter leaves the other components alone
LimiterOnly == UNCHANGED <<pipeVars, retryVars, cbVars, chVars, wkVars, whVars>>

\* a step of the chunker leaves the other components alone
ChunkerOnly == UNCHANGED <<pipeVars, retryVars, cbVars, rlVars, wkVars, whVars>>

\* a step of the worker's invocations leaves the other components alone
WorkerOnly == UNCHANGED <<pipeVars, retryVars, cbVars, rlVars, chVars, whVars>>

\* a step of the webhook handler leaves the other components alone
WebhookOnly == UNCHANGED <<pipeVars, retryVars, cbVars, rlVars, chVars, wkVars>>

NoResult == [ok |-> FALSE, coins |-> <<>>, error |-> "pending", failed |-> <<>>]

\* positions in which a sendTelegram is in progress
ErrorMessagePcs == {"newsError", "sentimentError", "parseError", "coinError", "systemError"}
TelegramPcs == ErrorMessagePcs \cup {"report", "summary"}

InitPipeline ==
    /\ coins \in SymbolLists
    /\ pc = "news"
    /\ idx = 1
    /\ tf = 0
    /\ att = 0
    /\ tgIdx = 0
    /\ tgTotal = 0
    /\ err = "none"
    /\ successfulCoins = <<>>
    /\ failedCoins = <<>>
    /\ result = NoResult
    /\ attempted = <<>>
    /\ stageFailed = {}
    /\ shared = "none"
    /\ summary = "none"
    /\ lostAt = {}
    /\ logged = {}
    /\ notified = {}
    /\ stagesRun = <<>>
    /\ stagesDone = <<>>
    /\ tgSent = <<>>
    /\ tgFailed = 0
    /\ reportLost = FALSE
    /\ response = NoResponse

\* no pipeline run: the state in which the other components are exercised alone
IdlePipeline ==
    /\ coins = <<DefaultSymbols[1]>>
    /\ pc = "idle"
    /\ idx = 1
    /\ tf = 0
    /\ att = 0
    /\ tgIdx = 0
    /\ tgTotal = 0
    /\ err = "none"
    /\ successfulCoins = <<>>
    /\ failedCoins = <<>>
    /\ result = NoResult
    /\ attempted = <<>>
    /\ stageFailed = {}
    /\ shared = "none"
    /\ summary = "none"
    /\ lostAt = {}
    /\ logged = {}
    /\ notified = {}
    /\ stagesRun = <<>>
    /\ stagesDone = <<>>
    /\ tgSent = <<>>
    /\ tgFailed = 0
    /\ reportLost = FALSE
    /\ response = NoResponse

\* no call of the retrying fetch in progress
IdleRetry ==
    /\ rVariant = "enhanced"
    /\ rAttempts = 3
    /\ rBackoff = 500
    /\ rPc = "idle"
    /\ rI = 0
    /\ rLastErr = 0
    /\ rThrown = 0
    /\ rReturned = 0
    /\ rCalls = 0
    /\ rTrace = <<>>
    /\ rOutcomes = <<>>
    /\ rLog = <<>>

\* a breaker as constructed with the defaults, never called
IdleBreaker ==
    /\ cbFailureThreshold = 5
    /\ cbResetTimeout = 60000
    /\ cbState = "CLOSED"
    /\ cbFailures = 0
    /\ cbLastFailureTime = 0
    /\ cbNow = 0
    /\ cbInFlight = 0
    /\ cbInvocations = 0
    /\ cbRejections = 0
    /\ cbConsecutive = 0
    /\ cbLastFailedAt = -1
    /\ cbProbes = 0
    /\ cbLast = "none"

\* a limiter as constructed with the defaults, never called
IdleLimiter ==
    /\ rlMaxRequests = 10
    /\ rlWindowMs = 60000
    /\ rlRequests = <<>>
    /\ rlNow = 0
    /\ rlWaiting = <<>>
    /\ rlCalls = 0
    /\ rlAdmissions = <<>>

\* no call of chunkForTelegram
IdleChunker ==
    /\ chHtml = <<>>
    /\ chMaxLength = 3900
    /\ chPc = "idle"
    /\ chStart = 0
    /\ chChunks = <<>>
    /\ chCuts = <<>>

\* largest number of invocations of the worker that overlap
MaxRuns == 2

Runs == 1..MaxRuns

\* no invocation of the worker
IdleWorker ==
    /\ wEntry = [r \in Runs |-> "none"]
    /\ wPos = [r \in Runs |-> "idle"]
    /\ wCall = [r \in Runs |-> "none"]

\* no call of handleTelegramWebhook
IdleWebhook ==
    /\ whUpdate = "noMessage"
    /\ whPc = "idle"
    /\ whAtt = 0
    /\ whRunOk = FALSE
    /\ whStatus = 0

\* the components that a specification of one component leaves unused
IdleUtilities == IdleLimiter /\ IdleChunker /\ IdleWorker /\ IdleWebhook

(***************************************************************************)
(* Control transfers                                                       *)
(***************************************************************************)
Goto(p) ==
    /\ pc' = p
    /\ tf' = 0
    /\ att' = 0
    /\ tgIdx' = 0
    /\ tgTotal' = 0

\* sendTelegram entered: chunks = chunkForTelegram(html, TELEGRAM_MAX_MESSAGE)
StartTelegram(p) ==
    /\ pc' = p
    /\ tf' = 0
    /\ att' = 0
    /\ tgIdx' = 1
    /\ \E n \in 1..MaxChunks : tgTotal' = n

\* one more iteration of the retry loop of fetchWithRetryEnhanced
Retry ==
    /\ att' = att + 1
    /\ UNCHANGED <<coins, pc, idx, tf, tgIdx, tgTotal, err, lists, result, hist>>

\* a retrying fetch that may always try once more
FetchOutcomesUnbounded == {"ok", "retry", "raise"}

\* outcomes of one attempt of fetchWithRetryEnhanced(.., attempts = 3, ..):
\* the response is returned, the attempt failed and another follows, or the
\* last attempt failed and its error is thrown
FetchOutcomes == IF att < Attempts - 1 THEN {"ok", "retry"} ELSE {"ok", "raise"}

(***************************************************************************)
(* handleRun: exits                                                        *)
(***************************************************************************)
\* handleRun lines 156-164: the object returned after the loop and the summary
ResultAfterLoop ==
    IF Len(failedCoins) > 0
    THEN [ok |-> FALSE, coins |-> successfulCoins,
          error |-> "Failed to analyze", failed |-> failedCoins]
    ELSE [ok |-> TRUE, coins |-> successfulCoins,
          error |-> "none", failed |-> <<>>]

ReturnFinal(s) ==
    /\ Goto("done")
    /\ result' = ResultAfterLoop
    /\ summary' = s
    /\ UNCHANGED <<coins, idx, err, lists, attempted, stageFailed, shared, logged>>

\* a fatal exit that answers like the first handleRun did: ok and the whole list
ReturnFatalOkAllCoins ==
    /\ Goto("done")
    /\ result' = [ok |-> TRUE, coins |-> coins, error |-> "none", failed |-> <<>>]
    /\ UNCHANGED <<coins, idx, err, lists, hist>>

\* handleRun lines 172-176: the result of the outer catch block
ReturnFatal ==
    /\ Goto("done")
    /\ result' = [ok |-> FALSE, coins |-> <<>>, error |-> err, failed |-> <<>>]
    /\ UNCHANGED <<coins, idx, err, lists, hist>>

\* an exception leaves handleRun
RaiseToCaller ==
    /\ Goto("raised")
    /\ UNCHANGED <<coins, idx, err, lists, result, hist>>

\* handleRun lines 165-170: the outer catch logs and sends the "System Error"
OuterCatch(e, s) ==
    /\ err' = e
    /\ summary' = s
    /\ logged' = logged \cup {<<"systemError", 0>>}
    /\ StartTelegram("systemError")
    /\ UNCHANGED <<coins, idx, lists, result, attempted, stageFailed, shared>>

\* handleRun lines 84-90, 101-108, 114-121: the catch of a shared stage logs
\* and sends its error message
SharedStageCatch(stage, e, p) ==
    /\ err' = e
    /\ shared' = stage
    /\ logged' = logged \cup {<<p, 0>>}
    /\ StartTelegram(p)
    /\ UNCHANGED <<coins, idx, lists, result, attempted, stageFailed, summary>>

(***************************************************************************)
(* handleRun: the item loop                                                *)
(***************************************************************************)
\* a catch that ends the loop at the first failed coin
LoopCatchBreaks ==
    /\ failedCoins' = Append(failedCoins, coins[idx])
    /\ idx' = Len(coins) + 1
    /\ err' = "none"
    /\ Goto("loop")
    /\ UNCHANGED <<coins, successfulCoins, result, hist>>

\* a catch that runs the failed coin again
LoopCatchRetries ==
    /\ failedCoins' = Append(failedCoins, coins[idx])
    /\ idx' = idx
    /\ err' = "none"
    /\ Goto("loop")
    /\ UNCHANGED <<coins, successfulCoins, result, hist>>

\* handleRun lines 137-141: the catch of the loop body
LoopCatch ==
    /\ failedCoins' = Append(failedCoins, coins[idx])
    /\ idx' = idx + 1
    /\ err' = "none"
    /\ Goto("loop")
    /\ UNCHANGED <<coins, successfulCoins, result, hist>>

\* a loop body that puts the coin in front of the succeeded list
LoopSuccessPrepends ==
    /\ successfulCoins' = <<coins[idx]>> \o successfulCoins
    /\ Goto("itemSleep")
    /\ UNCHANGED <<coins, idx, err, failedCoins, result, hist>>

\* handleRun line 135: analyzeCoin returned
LoopSuccess ==
    /\ successfulCoins' = Append(successfulCoins, coins[idx])
    /\ Goto("itemSleep")
    /\ UNCHANGED <<coins, idx, err, failedCoins, result, hist>>

\* a catch that puts mock candles in place of a timeframe that failed
AnalyzeCoinMocks(e) ==
    IF e \in {"candles", "candlesData"}
    THEN /\ IF tf < NumTimeframes
            THEN /\ tf' = tf + 1
                 /\ att' = 0
                 /\ UNCHANGED <<pc, tgIdx, tgTotal>>
            ELSE Goto("agent")
         /\ UNCHANGED <<coins, idx, err, lists, result, hist>>
    ELSE /\ err' = e
         /\ stageFailed' = stageFailed \cup {idx}
         /\ logged' = logged \cup {<<"coinError", idx>>}
         /\ StartTelegram("coinError")
         /\ UNCHANGED <<coins, idx, lists, result, attempted, shared, summary>>

\* a catch that logs the failure and throws it again without a message
AnalyzeCoinCatchSkipsMessage(e) ==
    /\ stageFailed' = stageFailed \cup {idx}
    /\ logged' = logged \cup {<<"coinError", idx>>}
    /\ failedCoins' = Append(failedCoins, coins[idx])
    /\ idx' = idx + 1
    /\ err' = "none"
    /\ Goto("loop")
    /\ UNCHANGED <<coins, successfulCoins, result, attempted, shared, summary>>

\* analyzeCoin lines 65-71: the catch logs and sends the "Crypto Data Error"
AnalyzeCoinCatch(e) ==
    /\ err' = e
    /\ stageFailed' = stageFailed \cup {idx}
    /\ logged' = logged \cup {<<"coinError", idx>>}
    /\ StartTelegram("coinError")
    /\ UNCHANGED <<coins, idx, lists, result, attempted, shared, summary>>

\* what follows sendErrorMessage in each catch block: analyzeCoin line 72,
\* handleRun lines 90, 108, 121 (throw) and 172 (return)
AfterErrorMessage ==
    CASE pc = "coinError" -> LoopCatch
      [] pc \in {"newsError", "sentimentError", "parseError"} ->
            OuterCatch(err, summary)
      [] pc = "systemError" -> ReturnFatal

\* a sendErrorMessage whose catch lets the delivery error through
SendErrorMessageRethrows ==
    CASE pc = "coinError" ->
            /\ failedCoins' = Append(failedCoins, coins[idx])
            /\ idx' = idx + 1
            /\ err' = "telegram"
            /\ Goto("loop")
            /\ UNCHANGED <<coins, successfulCoins, result, hist>>
      [] pc \in {"newsError", "sentimentError", "parseError"} ->
            OuterCatch("telegram", summary)
      [] pc = "systemError" -> RaiseToCaller

\* a sendErrorMessage whose delivery failure ends the run with an exception
SendErrorMessageAborts == RaiseToCaller

\* sendErrorMessage lines 30-35: a failed delivery is logged and swallowed
SendErrorMessageCatch == AfterErrorMessage

(***************************************************************************)
(* sendTelegram                                                            *)
(***************************************************************************)
\* sendTelegram returned to its caller
SendTelegramReturns ==
    CASE pc = "report" -> LoopSuccess
      [] pc = "summary" -> ReturnFinal("sent")
      [] pc \in ErrorMessagePcs -> AfterErrorMessage

\* a sendTelegram whose failure does not fail the report's coin
SendTelegramSparesReport ==
    CASE pc = "report" -> LoopSuccess
      [] pc = "summary" -> OuterCatch("telegram", "failed")
      [] pc \in ErrorMessagePcs -> SendErrorMessageCatch

\* a sendTelegram that goes on to the next chunk when one cannot be delivered
SendTelegramSkipsChunk ==
    IF tgIdx < tgTotal
    THEN /\ tgIdx' = tgIdx + 1
         /\ att' = 0
         /\ UNCHANGED <<coins, pc, idx, tf, tgTotal, err, lists, result, hist>>
    ELSE CASE pc = "report" -> AnalyzeCoinCatch("telegram")
           [] pc = "summary" -> OuterCatch("telegram", "failed")
           [] pc \in ErrorMessagePcs -> SendErrorMessageCatch

\* sendTelegram line 51 threw to its caller
SendTelegramThrows ==
    CASE pc = "report" -> AnalyzeCoinCatch("telegram")
      [] pc = "summary" -> OuterCatch("telegram", "failed")
      [] pc \in ErrorMessagePcs -> SendErrorMessageCatch

\* sendTelegram lines 21-55: one attempt to deliver chunk tgIdx
SendChunk ==
    /\ pc \in TelegramPcs
    /\ PipelineOnly
    /\ UNCHANGED response
    /\ notified' = IF pc \in ErrorMessagePcs
                    THEN notified \cup {<<pc, IF pc = "coinError" THEN idx ELSE 0>>}
                    ELSE notified
    /\ \E o \in FetchOutcomes :
         /\ CASE o = "retry" -> Retry /\ UNCHANGED <<lostAt, tgSent, tgFailed, reportLost>>
           [] o = "raise" ->
                /\ SendTelegramThrows
                /\ lostAt' = IF pc \in ErrorMessagePcs THEN lostAt \cup {pc} ELSE lostAt
                /\ reportLost' = (reportLost \/ pc = "report")
                /\ IF pc' \in TelegramPcs
                   THEN tgSent' = <<>> /\ tgFailed' = 0
                   ELSE tgSent' = tgSent /\ tgFailed' = tgIdx
           [] o = "ok" ->
                /\ UNCHANGED <<lostAt, reportLost, tgFailed>>
                /\ IF tgIdx < tgTotal
                   THEN /\ tgIdx' = tgIdx + 1
                        /\ att' = 0
                        /\ tgSent' = Append(tgSent, tgIdx)
                        /\ UNCHANGED <<coins, pc, idx, tf, tgTotal, err, lists,
                                       result, hist>>
                   ELSE /\ SendTelegramReturns
                        /\ tgSent' = IF pc' \in TelegramPcs THEN <<>>
                                      ELSE Append(tgSent, tgIdx)
         /\ stagesRun' = IF pc' = "loop" THEN <<>>
                          ELSE IF pc = "report" /\ tgIdx = 1 /\ att = 0
                                 THEN Append(stagesRun, "report") ELSE stagesRun
         /\ stagesDone' = IF pc' = "loop" THEN <<>>
                           ELSE IF pc = "report" /\ o = "ok" /\ tgIdx = tgTotal
                                  THEN Append(stagesDone, "report") ELSE stagesDone

(***************************************************************************)
(* handleRun: shared stages                                                *)
(***************************************************************************)
\* handleRun lines 80-91 with fetchCryptoNews: the fetch may exhaust its
\* retries; a fetched response may fail to decode or hold no article
FetchCryptoNews ==
    /\ pc = "news"
    /\ PipelineOnly
    /\ UNCHANGED seen
    /\ \E o \in FetchOutcomes, usable \in BOOLEAN :
         CASE o = "retry" -> Retry
           [] o = "ok" /\ usable ->
                /\ Goto("sentiment")
                /\ UNCHANGED <<coins, idx, err, lists, result, hist>>
           [] o = "ok" /\ ~usable -> SharedStageCatch("news", "newsData", "newsError")
           [] o = "raise" -> SharedStageCatch("news", "news", "newsError")

\* handleRun lines 98-109 with geminiCompletionJSON
GeminiCompletionJSON ==
    /\ pc = "sentiment"
    /\ PipelineOnly
    /\ UNCHANGED seen
    /\ \E o \in FetchOutcomes, usable \in BOOLEAN :
         CASE o = "retry" -> Retry
           [] o = "ok" /\ usable ->
                /\ Goto("parse")
                /\ UNCHANGED <<coins, idx, err, lists, result, hist>>
           [] o = "ok" /\ ~usable ->
                SharedStageCatch("sentiment", "sentimentData", "sentimentError")
           [] o = "raise" ->
                SharedStageCatch("sentiment", "sentiment", "sentimentError")

\* handleRun lines 111-122: JSON.parse(sentimentRaw)
ParseSentiment ==
    /\ pc = "parse"
    /\ PipelineOnly
    /\ UNCHANGED seen
    /\ \E valid \in BOOLEAN :
         IF valid
         THEN /\ Goto("loop")
              /\ UNCHANGED <<coins, idx, err, lists, result, hist>>
         ELSE SharedStageCatch("parse", "parse", "parseError")

(***************************************************************************)
(* handleRun: loop head, analyzeCoin and its stages                        *)
(***************************************************************************)
\* handleRun lines 132-134: the next coin is handed to analyzeCoin
LoopNext ==
    /\ pc = "loop"
    /\ PipelineOnly
    /\ idx <= Len(coins)
    /\ attempted' = Append(attempted, idx)
    /\ pc' = "candles"
    /\ tf' = 1
    /\ tgSent' = <<>>
    /\ tgFailed' = 0
    /\ reportLost' = FALSE
    /\ UNCHANGED <<coins, idx, att, tgIdx, tgTotal, err, lists, result,
                   stageFailed, shared, summary, logged, notified, lostAt,
                   response, stagesRun, stagesDone>>

\* an end of the loop that sends the summary whatever the succeeded list holds
LoopExitAlwaysSummarises ==
    /\ pc = "loop"
    /\ PipelineOnly
    /\ idx > Len(coins)
    /\ tgSent' = <<>>
    /\ tgFailed' = 0
    /\ reportLost' = FALSE
    /\ UNCHANGED <<lostAt, response, notified, stagesRun, stagesDone>>
    /\ StartTelegram("summary")
    /\ UNCHANGED <<coins, idx, err, lists, result, hist>>

\* handleRun lines 144-164: after the loop, the summary and the result
LoopExit ==
    /\ pc = "loop"
    /\ PipelineOnly
    /\ idx > Len(coins)
    /\ tgSent' = <<>>
    /\ tgFailed' = 0
    /\ reportLost' = FALSE
    /\ UNCHANGED <<lostAt, response, notified, stagesRun, stagesDone>>
    /\ IF Len(successfulCoins) > 0
       THEN /\ StartTelegram("summary")
            /\ UNCHANGED <<coins, idx, err, lists, result, hist>>
       ELSE ReturnFinal(summary)

\* fetchAllTimeframes lines 75-98 with fetchKlines: one attempt for timeframe tf
FetchKlines ==
    /\ pc = "candles"
    /\ PipelineOnly
    /\ UNCHANGED delivery
    /\ stagesRun' = IF att = 0 THEN Append(stagesRun, TimeframeIds[tf]) ELSE stagesRun
    /\ \E o \in FetchOutcomes, usable \in BOOLEAN :
         /\ stagesDone' = IF o = "ok" /\ usable
                           THEN Append(stagesDone, TimeframeIds[tf]) ELSE stagesDone
         /\ CASE o = "retry" -> Retry
           [] o = "ok" /\ usable ->
                /\ IF tf < NumTimeframes
                   THEN /\ tf' = tf + 1
                        /\ att' = 0
                        /\ UNCHANGED <<pc, tgIdx, tgTotal>>
                   ELSE Goto("agent")
                /\ UNCHANGED <<coins, idx, err, lists, result, hist>>
           [] o = "ok" /\ ~usable -> AnalyzeCoinCatch("candlesData")
           [] o = "raise" -> AnalyzeCoinCatch("candles")

\* analyzeCoin lines 57-64 with geminiCompletionText
GeminiCompletionText ==
    /\ pc = "agent"
    /\ PipelineOnly
    /\ UNCHANGED delivery
    /\ stagesRun' = IF att = 0 THEN Append(stagesRun, "agent") ELSE stagesRun
    /\ \E o \in FetchOutcomes, usable \in BOOLEAN :
         /\ stagesDone' = IF o = "ok" /\ usable
                           THEN Append(stagesDone, "agent") ELSE stagesDone
         /\ CASE o = "retry" -> Retry
           [] o = "ok" /\ usable ->
                /\ StartTelegram("report")
                /\ UNCHANGED <<coins, idx, err, lists, result, hist>>
           [] o = "ok" /\ ~usable -> AnalyzeCoinCatch("agentData")
           [] o = "raise" -> AnalyzeCoinCatch("agent")

\* handleRun line 136: await sleep(600), then the next iteration
InterItemSleep ==
    /\ pc = "itemSleep"
    /\ PipelineOnly
    /\ idx' = idx + 1
    /\ Goto("loop")
    /\ stagesRun' = <<>>
    /\ stagesDone' = <<>>
    /\ UNCHANGED <<coins, err, lists, result, hist, delivery>>

(***************************************************************************)
(* handleManualRun (controllers/api.ts): the answer to POST /run           *)
(***************************************************************************)
\* handleManualRun lines 37-57: the response built from handleRun's result
RunResponse(r) ==
    IF r.ok
    THEN [status |-> 200, ok |-> TRUE, hasCoins |-> TRUE, coins |-> r.coins]
    ELSE [status |-> 500, ok |-> FALSE, hasCoins |-> TRUE, coins |-> r.coins]

\* handleManualRun lines 58-66: the response of the catch block
RunFailureResponse == [status |-> 500, ok |-> FALSE, hasCoins |-> FALSE, coins |-> <<>>]

\* handleManualRun lines 34-66, once handleRun has returned or raised
HandleManualRun ==
    /\ pc \in {"done", "raised"}
    /\ response = NoResponse
    /\ PipelineOnly
    /\ response' = IF pc = "done" THEN RunResponse(result) ELSE RunFailureResponse
    /\ UNCHANGED <<coins, pc, idx, tf, att, tgIdx, tgTotal, err, lists, result,
                   hist, lostAt, tgSent, tgFailed, reportLost, notified,
                   stagesRun, stagesDone>>

(***************************************************************************)
(* fetchWithRetryEnhanced (utils/http.ts) and fetchWithRetry (first worker)*)
(***************************************************************************)
\* largest attempt count explored
MaxAttempts == 4

\* the base backoffs the call sites pass (crypto-candles.ts and news.ts 500,
\* telegram 700, gemini 800) and the one of the first worker's klines (400)
Backoffs == {400, 500, 700, 800}

InitRetry ==
    /\ rVariant \in {"enhanced", "fixed"}
    /\ rAttempts \in 1..MaxAttempts
    /\ rBackoff \in Backoffs
    /\ rPc = "attempt"
    /\ rI = 0
    /\ rLastErr = 0
    /\ rThrown = 0
    /\ rReturned = 0
    /\ rCalls = 0
    /\ rTrace = <<>>
    /\ rOutcomes = <<>>
    /\ rLog = <<>>
    /\ IdlePipeline
    /\ IdleBreaker
    /\ IdleUtilities

\* an off-by-one loop bound
LoopRunsOneMore(i) == i <= rAttempts

\* the loop condition i < attempts
LoopRuns(i) == i < rAttempts

\* the condition i < attempts - 1 under which the catch sleeps
SleepsAfter(i) == i < rAttempts - 1

\* a delay that doubles one step early
BackoffDelayEarly(i) ==
    IF rVariant = "enhanced" THEN rBackoff * 2 ^ (i + 1) ELSE rBackoff * (i + 2)

\* the delay after failed attempt i (0-indexed): backoffMs * Math.pow(2, i) in
\* fetchWithRetryEnhanced, backoffMs * (i + 1) in fetchWithRetry
BackoffDelay(i) ==
    IF rVariant = "enhanced" THEN rBackoff * 2 ^ i ELSE rBackoff * (i + 1)

\* the i++ of the for loop and its test: another iteration, or throw lastErr
RetryLoopStep(lastErr) ==
    /\ rI' = rI + 1
    /\ IF LoopRuns(rI + 1)
       THEN rPc' = "attempt" /\ rThrown' = rThrown
       ELSE rPc' = "threw" /\ rThrown' = lastErr

\* a test that takes any response for a success
AnyResponseSucceeds(o) == o \in {"ok", "status"}

\* lines 96-100: a response with res.ok is returned, any other throws
AttemptSucceeds(o) == o = "ok"

\* lines 103-107: logger.warn(`fetchWithRetry attempt ${i + 1} failed`, ...)
WarnEntry(i, o) == [level |-> "warn", attempt |-> i + 1, error |-> o]

\* one iteration of the loop up to its return, its sleep or the end of the
\* catch: fetch answers with a success status, answers with another status
\* (the body throws "HTTP <status>") or raises
RetryAttempt ==
    /\ rPc = "attempt"
    /\ RetryOnly
    /\ rCalls' = rCalls + 1
    /\ \E o \in {"ok", "status", "raise"} :
         /\ rTrace' = Append(rTrace, [ev |-> "fetch", attempt |-> rI + 1, ms |-> 0])
         /\ rOutcomes' = Append(rOutcomes, o)
         /\ IF AttemptSucceeds(o)
            THEN /\ rPc' = "returned"
                 /\ rReturned' = rI + 1
                 /\ UNCHANGED <<rI, rLastErr, rThrown, rLog>>
            ELSE /\ rLastErr' = rI + 1
                 /\ rLog' = Append(rLog, WarnEntry(rI, o))
                 /\ rReturned' = rReturned
                 /\ IF SleepsAfter(rI)
                    THEN /\ rPc' = "sleep"
                         /\ UNCHANGED <<rI, rThrown>>
                    ELSE RetryLoopStep(rI + 1)
    /\ UNCHANGED <<rVariant, rAttempts, rBackoff>>

\* await sleep(delay) in the catch, then the next iteration
RetrySleep ==
    /\ rPc = "sleep"
    /\ RetryOnly
    /\ rTrace' = Append(rTrace, [ev |-> "sleep", attempt |-> rI + 1,
                                 ms |-> BackoffDelay(rI)])
    /\ RetryLoopStep(rLastErr)
    /\ UNCHANGED <<rVariant, rAttempts, rBackoff, rLastErr, rReturned, rCalls,
                   rOutcomes, rLog>>

NextRetry ==
    \/ RetryAttempt
    \/ RetrySleep

SpecRetry == InitRetry /\ [][NextRetry]_vars

(***************************************************************************)
(* CircuitBreaker (utils/http.ts). Calls of execute may overlap: a call    *)
(* is suspended at "await fn()" while others start or complete.            *)
(***************************************************************************)
\* largest failureThreshold explored
MaxThreshold == 2
\* largest resetTimeout explored (in clock ticks)
MaxResetTimeout == 2
\* last instant of the clock
MaxTime == 4
\* most calls suspended in fn() at the same time
MaxInFlight == 2
\* most invocations of fn in one behaviour
MaxInvocations == 5
\* most rejected calls in one behaviour
MaxRejections == 2

\* constructor line 18: failureThreshold = 5
DefaultFailureThreshold == 5

\* new CircuitBreaker(failureThreshold, resetTimeout)
InitBreaker ==
    /\ cbFailureThreshold \in 1..MaxThreshold
    /\ cbResetTimeout \in 0..MaxResetTimeout
    /\ cbState = "CLOSED"
    /\ cbFailures = 0
    /\ cbLastFailureTime = 0
    /\ cbNow = 1
    /\ cbInFlight = 0
    /\ cbInvocations = 0
    /\ cbRejections = 0
    /\ cbConsecutive = 0
    /\ cbLastFailedAt = -1
    /\ cbProbes = 0
    /\ cbLast = "none"
    /\ IdlePipeline
    /\ IdleRetry
    /\ IdleUtilities

\* a test that lets the probe through as soon as resetTimeout is reached
ResetTimeoutReached == cbNow - cbLastFailureTime >= cbResetTimeout

\* execute line 25: Date.now() - this.lastFailureTime > this.resetTimeout
ResetTimeoutElapsed == cbNow - cbLastFailureTime > cbResetTimeout

\* a rejection that counts as a failure and restarts the timeout
ExecuteRejectRestartsTimer ==
    /\ cbState = "OPEN"
    /\ ~ResetTimeoutElapsed
    /\ cbRejections < MaxRejections
    /\ BreakerOnly
    /\ cbRejections' = cbRejections + 1
    /\ cbLast' = "open"
    /\ cbLastFailureTime' = cbNow
    /\ UNCHANGED <<cbFailureThreshold, cbResetTimeout, cbState, cbFailures,
                   cbNow, cbInFlight, cbInvocations, cbConsecutive,
                   cbLastFailedAt, cbProbes>>

\* execute lines 24-30, the branch that throws 'Circuit breaker is OPEN'
ExecuteReject ==
    /\ cbState = "OPEN"
    /\ ~ResetTimeoutElapsed
    /\ cbRejections < MaxRejections
    /\ BreakerOnly
    /\ cbRejections' = cbRejections + 1
    /\ cbLast' = "open"
    /\ UNCHANGED <<cbFailureThreshold, cbResetTimeout, cbState, cbFailures,
                   cbLastFailureTime, cbNow, cbInFlight, cbInvocations,
                   cbConsecutive, cbLastFailedAt, cbProbes>>

\* execute lines 24-33: the call passes the gate (an OPEN breaker whose
\* timeout elapsed becomes HALF_OPEN) and invokes fn
ExecuteInvoke ==
    /\ cbState = "OPEN" => ResetTimeoutElapsed
    /\ cbInFlight < MaxInFlight
    /\ cbInvocations < MaxInvocations
    /\ BreakerOnly
    /\ cbState' = IF cbState = "OPEN" THEN "HALF_OPEN" ELSE cbState
    /\ cbInFlight' = cbInFlight + 1
    /\ cbInvocations' = cbInvocations + 1
    /\ cbProbes' = IF cbState = "OPEN" THEN cbProbes + 1 ELSE cbProbes
    /\ UNCHANGED <<cbFailureThreshold, cbResetTimeout, cbFailures,
                   cbLastFailureTime, cbNow, cbRejections, cbConsecutive,
                   cbLastFailedAt, cbLast>>

\* an execute that reports a failed operation as a rejection by the breaker
CallerGetsOpenError(fn) == IF fn = "resolved" THEN "result" ELSE "open"

\* execute lines 33-38: fn's result is returned, fn's error is thrown again
CallerGets(fn) == IF fn = "resolved" THEN "result" ELSE "error"

\* an onSuccess that takes one failure off the counter
OnSuccessDecrements ==
    /\ cbFailures' = IF cbFailures > 0 THEN cbFailures - 1 ELSE 0
    /\ cbState' = "CLOSED"
    /\ UNCHANGED cbLastFailureTime

\* an onSuccess that clears the counter and leaves the state alone
OnSuccessKeepsState ==
    /\ cbFailures' = 0
    /\ UNCHANGED <<cbState, cbLastFailureTime>>

\* onSuccess
OnSuccess ==
    /\ cbFailures' = 0
    /\ cbState' = "CLOSED"
    /\ UNCHANGED cbLastFailureTime

\* an onFailure that does not restart the timeout when the probe fails
OnFailureKeepsTimer ==
    /\ cbFailures' = cbFailures + 1
    /\ cbLastFailureTime' = IF cbState = "HALF_OPEN" THEN cbLastFailureTime ELSE cbNow
    /\ cbState' = IF cbFailures + 1 >= cbFailureThreshold THEN "OPEN" ELSE cbState

\* onFailure
OnFailure ==
    /\ cbFailures' = cbFailures + 1
    /\ cbLastFailureTime' = cbNow
    /\ cbState' = IF cbFailures + 1 >= cbFailureThreshold THEN "OPEN" ELSE cbState

\* execute lines 33-35: fn() resolved
ExecuteReturns ==
    /\ cbInFlight > 0
    /\ BreakerOnly
    /\ OnSuccess
    /\ cbInFlight' = cbInFlight - 1
    /\ cbConsecutive' = 0
    /\ cbLast' = CallerGets("resolved")
    /\ UNCHANGED <<cbFailureThreshold, cbResetTimeout, cbNow, cbInvocations,
                   cbRejections, cbLastFailedAt, cbProbes>>

\* execute lines 36-38: fn() rejected
ExecuteThrows ==
    /\ cbInFlight > 0
    /\ BreakerOnly
    /\ OnFailure
    /\ cbInFlight' = cbInFlight - 1
    /\ cbConsecutive' = cbConsecutive + 1
    /\ cbLastFailedAt' = cbNow
    /\ cbLast' = CallerGets("rejected")
    /\ UNCHANGED <<cbFailureThreshold, cbResetTimeout, cbNow, cbInvocations,
                   cbRejections, cbProbes>>

\* time passes
Tick ==
    /\ cbNow < MaxTime
    /\ BreakerOnly
    /\ cbNow' = cbNow + 1
    /\ UNCHANGED <<cbFailureThreshold, cbResetTimeout, cbState, cbFailures,
                   cbLastFailureTime, cbInFlight, cbInvocations, cbRejections,
                   cbConsecutive, cbLastFailedAt, cbProbes, cbLast>>

NextBreaker ==
    \/ ExecuteReject
    \/ ExecuteInvoke
    \/ ExecuteReturns
    \/ ExecuteThrows
    \/ Tick

SpecBreaker == InitBreaker /\ [][NextBreaker]_vars

(***************************************************************************)
(* RateLimiter (utils/http.ts). A call of waitForSlot that has to wait is  *)
(* suspended in sleep(waitTime); other calls run meanwhile. Timers fire on *)
(* time: the clock does not pass a pending wake-up.                        *)
(***************************************************************************)
\* largest maxRequests explored
MaxLimit == 2
\* largest windowMs explored (in clock ticks)
MaxWindow == 3
\* last instant of the limiter's clock
MaxClock == 5
\* most calls of waitForSlot in one behaviour
MaxAcquisitions == 4
\* most calls suspended at the same time
MaxWaiting == 2

\* new RateLimiter(maxRequests, windowMs)
InitLimiter ==
    /\ rlMaxRequests \in 1..MaxLimit
    /\ rlWindowMs \in 1..MaxWindow
    /\ rlRequests = <<>>
    /\ rlNow = 0
    /\ rlWaiting = <<>>
    /\ rlCalls = 0
    /\ rlAdmissions = <<>>
    /\ IdlePipeline
    /\ IdleRetry
    /\ IdleBreaker
    /\ IdleChunker
    /\ IdleWorker
    /\ IdleWebhook

\* waitForSlot line 70: this.requests.filter(time => now - time < this.windowMs)
Prune(requests, now) == SelectSeq(requests, LAMBDA time : now - time < rlWindowMs)

\* waitForSlot line 74: this.windowMs - (now - oldestRequest)
WaitTime(requests, now) == rlWindowMs - (now - requests[1])

\* waitForSlot line 80, after a wait: this.requests.push(now), now read at line 69
PushAfterWait(w) == Append(rlRequests, w.now)

\* waitForSlot lines 69-80 up to the first suspension: the call either
\* returns at once or is suspended in sleep(waitTime)
WaitForSlot ==
    /\ rlCalls < MaxAcquisitions
    /\ LimiterOnly
    /\ rlCalls' = rlCalls + 1
    /\ LET now == rlNow
           pruned == Prune(rlRequests, now)
       IN  IF Len(pruned) >= rlMaxRequests /\ WaitTime(pruned, now) > 0
             THEN /\ Len(rlWaiting) < MaxWaiting
                  /\ now + WaitTime(pruned, now) <= MaxClock
                  /\ rlRequests' = pruned
                  /\ rlWaiting' = Append(rlWaiting,
                                         [now |-> now, wake |-> now + WaitTime(pruned, now)])
                  /\ UNCHANGED rlAdmissions
             ELSE /\ rlRequests' = Append(pruned, now)
                  /\ rlAdmissions' = Append(rlAdmissions, rlNow)
                  /\ UNCHANGED rlWaiting
    /\ UNCHANGED <<rlMaxRequests, rlWindowMs, rlNow>>

\* a waitForSlot that checks the window again after its sleep and sleeps
\* once more when the window is still full
WaitForSlotRechecks ==
    \E k \in 1..Len(rlWaiting) :
       /\ rlWaiting[k].wake <= rlNow
       /\ LimiterOnly
       /\ LET pruned == Prune(rlRequests, rlNow)
          IN  IF Len(pruned) >= rlMaxRequests
                THEN /\ rlRequests' = pruned
                     /\ rlWaiting' = [rlWaiting EXCEPT ![k] =
                            [now |-> rlNow, wake |-> rlNow + WaitTime(pruned, rlNow)]]
                     /\ UNCHANGED rlAdmissions
                ELSE /\ rlRequests' = Append(pruned, rlNow)
                     /\ rlAdmissions' = Append(rlAdmissions, rlNow)
                     /\ rlWaiting' = [j \in 1..(Len(rlWaiting) - 1) |->
                            IF j < k THEN rlWaiting[j] ELSE rlWaiting[j + 1]]
       /\ UNCHANGED <<rlMaxRequests, rlWindowMs, rlNow, rlCalls>>

\* waitForSlot lines 76-80: sleep(waitTime) is over, the call records its
\* instant and returns
WaitForSlotResumes ==
    \E k \in 1..Len(rlWaiting) :
       /\ rlWaiting[k].wake <= rlNow
       /\ LimiterOnly
       /\ rlRequests' = PushAfterWait(rlWaiting[k])
       /\ rlAdmissions' = Append(rlAdmissions, rlNow)
       /\ rlWaiting' = [j \in 1..(Len(rlWaiting) - 1) |->
                           IF j < k THEN rlWaiting[j] ELSE rlWaiting[j + 1]]
       /\ UNCHANGED <<rlMaxRequests, rlWindowMs, rlNow, rlCalls>>

\* time passes
LimiterTick ==
    /\ rlNow < MaxClock
    /\ \A k \in 1..Len(rlWaiting) : rlWaiting[k].wake > rlNow
    /\ LimiterOnly
    /\ rlNow' = rlNow + 1
    /\ UNCHANGED <<rlMaxRequests, rlWindowMs, rlRequests, rlWaiting, rlCalls,
                   rlAdmissions>>

NextLimiter ==
    \/ WaitForSlot
    \/ WaitForSlotResumes
    \/ LimiterTick

SpecLimiter == InitLimiter /\ [][NextLimiter]_vars

\* the event loop runs every timer that is due, and time goes on
SpecLimiterLive ==
    SpecLimiter /\ WF_vars(WaitForSlotResumes) /\ WF_vars(LimiterTick)

(***************************************************************************)
(* chunkForTelegram (utils/formatting.ts; the first worker has the same    *)
(* loop). A text is a sequence of characters of which only the line breaks *)
(* matter; offsets are 0-based as in the source.                           *)
(***************************************************************************)
LineBreak == "\n"
OtherChar == "x"

\* the literal 200 of "lastBreak > start + 200"
MinBreakOffset == 200

\* longest text of which every content is explored
MaxShortLength == 3
\* most line breaks in a long text
MaxBreaks == 2

\* lengths and limits around MinBreakOffset
LongLengths == {250, 301, 452, 505}
LongLimits == {201, 250, 300}
\* offsets of the line breaks of a long text
BreakOffsets == {0, 150, 200, 201, 202, 250, 300, 401, 450, 451, 452, 504}

\* the text of the given length with line breaks at the given offsets
TextWith(length, breaks) ==
    [i \in 1..length |-> IF (i - 1) \in breaks THEN LineBreak ELSE OtherChar]

ShortTexts ==
    UNION {[1..n -> {LineBreak, OtherChar}] : n \in 0..MaxShortLength}

LongTexts ==
    {TextWith(n, b) : n \in LongLengths,
                      b \in {c \in SUBSET BreakOffsets : Cardinality(c) <= MaxBreaks}}

\* chunkForTelegram(html, maxLength) is called
InitChunker ==
    /\ \/ chHtml \in ShortTexts /\ chMaxLength \in 1..MaxShortLength
       \/ chHtml \in LongTexts /\ chMaxLength \in LongLimits
    /\ chPc = "entry"
    /\ chStart = 0
    /\ chChunks = <<>>
    /\ chCuts = <<>>
    /\ IdlePipeline
    /\ IdleRetry
    /\ IdleBreaker
    /\ IdleLimiter
    /\ IdleWorker
    /\ IdleWebhook

Min(a, b) == IF a <= b THEN a ELSE b

\* String.prototype.lastIndexOf(c, fromIndex): the greatest offset <= fromIndex
\* at which c occurs, -1 if there is none
LastIndexOf(text, c, fromIndex) ==
    LET at == {j \in 0..Min(fromIndex, Len(text) - 1) : text[j + 1] = c}
    IN  IF at = {} THEN -1 ELSE CHOOSE j \in at : \A i \in at : i <= j

\* String.prototype.slice(from, to) for 0 <= from <= to <= length
Slice(text, from, to) == SubSeq(text, from + 1, to)

\* a test that takes any line break found
BreakAnywhere(start, lastBreak) == lastBreak >= 0

\* a test that takes a line break from MinBreakOffset characters on
BreakFromOffset(start, lastBreak) == lastBreak >= start + MinBreakOffset

\* line 20: if (lastBreak > start + 200)
BreakIsFarEnough(start, lastBreak) == lastBreak > start + MinBreakOffset

\* a loop that resumes after the line break it cut at
StartAfterBreak(end, lastBreak) == IF end = lastBreak THEN end + 1 ELSE end

\* line 23: start = end
NextStart(end, lastBreak) == end

\* lines 14, 16, 17: the short text is returned whole, or the loop is entered
ChunkEntry ==
    /\ chPc = "entry"
    /\ ChunkerOnly
    /\ IF Len(chHtml) <= chMaxLength
         THEN /\ chChunks' = <<chHtml>>
              /\ chCuts' = <<Len(chHtml)>>
              /\ chPc' = "returned"
         ELSE /\ chPc' = "loop"
              /\ UNCHANGED <<chChunks, chCuts>>
    /\ UNCHANGED <<chHtml, chMaxLength, chStart>>

\* lines 17-24: one iteration of the while loop
ChunkLoop ==
    /\ chPc = "loop"
    /\ chStart < Len(chHtml)
    /\ ChunkerOnly
    /\ LET hard == Min(chStart + chMaxLength, Len(chHtml))
           lastBreak == LastIndexOf(chHtml, LineBreak, hard)
           end == IF BreakIsFarEnough(chStart, lastBreak) THEN lastBreak ELSE hard
       IN  /\ chChunks' = Append(chChunks, Slice(chHtml, chStart, end))
           /\ chCuts' = Append(chCuts, end)
           /\ chStart' = NextStart(end, lastBreak)
    /\ UNCHANGED <<chHtml, chMaxLength, chPc>>

\* lines 17, 25: the loop ends and chunks is returned
ChunkReturn ==
    /\ chPc = "loop"
    /\ chStart >= Len(chHtml)
    /\ ChunkerOnly
    /\ chPc' = "returned"
    /\ UNCHANGED <<chHtml, chMaxLength, chStart, chChunks, chCuts>>

NextChunker ==
    \/ ChunkEntry
    \/ ChunkLoop
    \/ ChunkReturn

SpecChunker == InitChunker /\ [][NextChunker]_vars

\* chunkForTelegram is synchronous: it runs until it returns
SpecChunkerLive == SpecChunker /\ WF_vars(NextChunker)

(***************************************************************************)
(* The worker's entry points (config/constants.ts): each invocation runs   *)
(* handleRun, or the Telegram test, as a chain of awaited outbound calls.  *)
(* The runtime may deliver an event while an earlier invocation awaits.    *)
(* A run is followed over one symbol.                                      *)
(***************************************************************************)
InitWorker ==
    /\ IdleWorker
    /\ IdleWebhook
    /\ IdlePipeline
    /\ IdleRetry
    /\ IdleBreaker
    /\ IdleLimiter
    /\ IdleChunker

CandleSites == {"candles15m", "candles1h", "candles1d"}

\* the service each call site of a run talks to
Dependency(site) ==
    CASE site = "news" -> "TheNewsAPI"
      [] site \in {"sentiment", "agent"} -> "Gemini"
      [] site \in CandleSites -> "KuCoin"
      [] OTHER -> "Telegram"

\* the call site a run reaches when the awaited call returned
AfterReturn(site) ==
    CASE site = "news" -> "sentiment"
      [] site = "sentiment" -> "candles15m"
      [] site = "candles15m" -> "candles1h"
      [] site = "candles1h" -> "candles1d"
      [] site = "candles1d" -> "agent"
      [] site = "agent" -> "report"
      [] site = "report" -> "summary"
      [] site = "stageError" -> "systemError"
      [] OTHER -> "done"

\* the call site a run reaches when the awaited call threw after its retries
AfterThrow(site) ==
    CASE site \in {"news", "sentiment"} -> "stageError"
      [] site \in CandleSites \cup {"agent", "report"} -> "coinError"
      [] site = "summary" -> "systemError"
      [] site = "stageError" -> "systemError"
      [] OTHER -> "done"

\* scheduled: the cron trigger starts a run
Scheduled(r) ==
    /\ wEntry[r] = "none"
    /\ WorkerOnly
    /\ wEntry' = [wEntry EXCEPT ![r] = "scheduled"]
    /\ wPos' = [wPos EXCEPT ![r] = "news"]
    /\ UNCHANGED wCall

\* fetch with POST /run: handleManualRun starts a run
FetchRun(r) ==
    /\ wEntry[r] = "none"
    /\ WorkerOnly
    /\ wEntry' = [wEntry EXCEPT ![r] = "run"]
    /\ wPos' = [wPos EXCEPT ![r] = "news"]
    /\ UNCHANGED wCall

\* fetch with POST /test-telegram: handleTestTelegram sends one message
FetchTestTelegram(r) ==
    /\ wEntry[r] = "none"
    /\ WorkerOnly
    /\ wEntry' = [wEntry EXCEPT ![r] = "test"]
    /\ wPos' = [wPos EXCEPT ![r] = "test"]
    /\ UNCHANGED wCall

\* an invocation issues the outbound call of its call site and awaits it
IssueCall(r) ==
    /\ wPos[r] \notin {"idle", "done"}
    /\ wCall[r] = "none"
    /\ WorkerOnly
    /\ wCall' = [wCall EXCEPT ![r] = Dependency(wPos[r])]
    /\ UNCHANGED <<wEntry, wPos>>

\* the awaited call returned
CallReturns(r) ==
    /\ wCall[r] # "none"
    /\ WorkerOnly
    /\ wCall' = [wCall EXCEPT ![r] = "none"]
    /\ wPos' = [wPos EXCEPT ![r] = AfterReturn(wPos[r])]
    /\ UNCHANGED wEntry

\* the awaited call failed: the retrying fetch issues it again, or the error
\* reaches the catch block of the call site
CallThrows(r) ==
    /\ wCall[r] # "none"
    /\ WorkerOnly
    /\ wCall' = [wCall EXCEPT ![r] = "none"]
    /\ \E site \in {wPos[r], AfterThrow(wPos[r])} :
          wPos' = [wPos EXCEPT ![r] = site]
    /\ UNCHANGED wEntry

NextWorker ==
    \E r \in Runs :
       \/ Scheduled(r)
       \/ FetchRun(r)
       \/ FetchTestTelegram(r)
       \/ IssueCall(r)
       \/ CallReturns(r)
       \/ CallThrows(r)

SpecWorker == InitWorker /\ [][NextWorker]_vars

(***************************************************************************)
(* handleTelegramWebhook (controllers/api.ts)                              *)
(***************************************************************************)
\* the texts a chat sends that name a symbol
WebhookSymbols == {DefaultSymbols[i] : i \in 1..Len(DefaultSymbols)}

\* handleTelegramWebhook is called with a request
InitWebhook ==
    /\ whUpdate \in {"malformed", "noMessage", "empty"} \cup WebhookSymbols
    /\ whPc = "entry"
    /\ whAtt = 0
    /\ whRunOk = FALSE
    /\ whStatus = 0
    /\ IdlePipeline
    /\ IdleRetry
    /\ IdleBreaker
    /\ IdleLimiter
    /\ IdleChunker
    /\ IdleWorker

\* lines 105-106: return new Response(.., { status: 200 })
WebhookReturns ==
    /\ whPc' = "done"
    /\ whStatus' = 200
    /\ whAtt' = 0
    /\ UNCHANGED <<whUpdate, whRunOk>>

\* lines 108-110: the catch logs and returns a Response with status 500
WebhookCatch ==
    /\ whPc' = "done"
    /\ whStatus' = 500
    /\ whAtt' = 0
    /\ UNCHANGED <<whUpdate, whRunOk>>

\* lines 72-80, 99-102: request.json() and the tests on the update
WebhookParse ==
    /\ whPc = "entry"
    /\ WebhookOnly
    /\ CASE whUpdate = "malformed" -> WebhookCatch
         [] whUpdate = "noMessage" -> WebhookReturns
         [] whUpdate = "empty" ->
               /\ whPc' = "hint"
               /\ UNCHANGED <<whUpdate, whAtt, whRunOk, whStatus>>
         [] OTHER ->
               /\ whPc' = "ack"
               /\ UNCHANGED <<whUpdate, whAtt, whRunOk, whStatus>>

\* outcomes of one attempt of sendTelegram's fetchWithRetryEnhanced
WebhookSendOutcomes ==
    IF whAtt < Attempts - 1 THEN {"ok", "retry"} ELSE {"ok", "raise"}

\* lines 84, 99, 102: await sendTelegram(..) of the acknowledgement, the reply
\* or the hint; one attempt of its delivery
WebhookSend ==
    /\ whPc \in {"ack", "reply", "hint"}
    /\ WebhookOnly
    /\ \E o \in WebhookSendOutcomes :
         CASE o = "retry" ->
                /\ whAtt' = whAtt + 1
                /\ UNCHANGED <<whUpdate, whPc, whRunOk, whStatus>>
           [] o = "raise" -> WebhookCatch
           [] o = "ok" /\ whPc = "ack" ->
                /\ whPc' = "run"
                /\ whAtt' = 0
                /\ UNCHANGED <<whUpdate, whRunOk, whStatus>>
           [] o = "ok" /\ whPc # "ack" -> WebhookReturns

\* line 87: const result = await handleRun(env, logger, symbol)
WebhookRun ==
    /\ whPc = "run"
    /\ WebhookOnly
    /\ whRunOk' \in BOOLEAN
    /\ whPc' = "reply"
    /\ UNCHANGED <<whUpdate, whAtt, whStatus>>

NextWebhook ==
    \/ WebhookParse
    \/ WebhookSend
    \/ WebhookRun

SpecWebhook == InitWebhook /\ [][NextWebhook]_vars

NextPipeline ==
    \/ FetchCryptoNews
    \/ GeminiCompletionJSON
    \/ ParseSentiment
    \/ LoopNext
    \/ LoopExit
    \/ FetchKlines
    \/ GeminiCompletionText
    \/ SendChunk
    \/ InterItemSleep
    \/ HandleManualRun

Init == InitPipeline /\ IdleRetry /\ IdleBreaker /\ IdleUtilities

Next == NextPipeline

Spec == Init /\ [][Next]_vars

\* every awaited call settles and every sleep ends
SpecLive == Spec /\ WF_vars(Next)

TypeOK ==
    /\ coins \in SymbolLists
    /\ pc \in {"idle", "news", "sentiment", "parse", "loop", "candles", "agent",
               "itemSleep", "done", "raised"} \cup TelegramPcs
    /\ idx \in 1..(Len(coins) + 1)
    /\ tf \in 0..NumTimeframes
    /\ att \in 0..(Attempts - 1)
    /\ tgIdx \in 0..MaxChunks
    /\ tgTotal \in 0..MaxChunks
    /\ err \in {"none", "news", "newsData", "sentiment", "sentimentData", "parse",
                "candles", "candlesData", "agent", "agentData", "telegram"}
    /\ stageFailed \subseteq 1..Len(coins)
    /\ shared \in {"none", "news", "sentiment", "parse"}
    /\ summary \in {"none", "sent", "failed"}
    /\ lostAt \subseteq ErrorMessagePcs
    /\ tgFailed \in 0..MaxChunks
    /\ reportLost \in BOOLEAN
    /\ response.status \in {0, 200, 500}

(***************************************************************************)
(* Helpers of the properties                                               *)
(***************************************************************************)
IndexSeq(n) == [i \in 1..n |-> i]

\* the symbols at the positions of coins that are in S, in list order
SymbolsAt(S) ==
    LET ix == SelectSeq(IndexSeq(Len(coins)), LAMBDA i : i \in S)
    IN  [k \in 1..Len(ix) |-> coins[ix[k]]]

AllItems == 1..Len(coins)

(***************************************************************************)
(* C1. Partial-failure isolation: when the shared stages succeeded, every  *)
(* item of the list is attempted whichever items fail; when the summary    *)
(* was not lost, the result lists exactly the items none of whose stages   *)
(* failed, in list order, and ok is false iff some item failed. With five  *)
(* items of which only the third fails: items 1, 2, 4, 5 succeeded, item 3 *)
(* failed, ok = false.                                                     *)
(***************************************************************************)
C1_PartialFailureIsolation ==
    /\ (shared = "none" /\ pc \in {"summary", "systemError", "done"})
          => attempted = IndexSeq(Len(coins))
    /\ (pc = "done" /\ shared = "none" /\ summary # "failed")
          => /\ result.coins = SymbolsAt(AllItems \ stageFailed)
             /\ result.failed = SymbolsAt(stageFailed)
             /\ result.ok = (stageFailed = {})
    /\ (pc = "done" /\ shared = "none" /\ summary = "sent"
           /\ Len(coins) = 5 /\ stageFailed = {3})
          => result = [ok |-> FALSE,
                       coins |-> <<coins[1], coins[2], coins[4], coins[5]>>,
                       error |-> "Failed to analyze",
                       failed |-> <<coins[3]>>]

C1_Witness ==
    /\ pc = "done"
    /\ Len(coins) = 5
    /\ stageFailed = {3}
    /\ attempted = <<1, 2, 3, 4, 5>>
    /\ result.coins = <<coins[1], coins[2], coins[4], coins[5]>>
    /\ result.ok = FALSE

(***************************************************************************)
(* C2. Fatal shared stage: when the news fetch or the sentiment call has   *)
(* failed, analyzeCoin is never invoked, and the run returns ok = false,   *)
(* no succeeded item and the error of the failed stage, however long the   *)
(* symbol list is.                                                         *)
(***************************************************************************)
C2_FatalSharedStage ==
    shared \in {"news", "sentiment"}
        => /\ attempted = <<>>
           /\ successfulCoins = <<>>
           /\ failedCoins = <<>>
           /\ pc \in {"newsError", "sentimentError", "systemError", "done"}
           /\ pc = "done" => /\ result.ok = FALSE
                             /\ result.coins = <<>>
                             /\ result.error = err
                             /\ err \in {"news", "newsData", "sentiment", "sentimentData"}

\* the sentiment call exhausted its three attempts with three coins queued
C2_Witness ==
    /\ pc = "done"
    /\ result.error = "sentiment"
    /\ Len(coins) >= 3
    /\ attempted = <<>>

(***************************************************************************)
(* C3. handleRun always returns: no exception leaves handleRun, a run that *)
(* has not returned can always take a step, and a returned run holds a     *)
(* result {ok, coins, error?}.                                             *)
(***************************************************************************)
C3_AlwaysReturnsResult ==
    /\ pc # "raised"
    /\ pc # "done" => ENABLED NextPipeline
    /\ pc = "done" => /\ result # NoResult
                      /\ result.ok \in BOOLEAN
                      /\ result.ok <=> result.error = "none"

\* item notification, summary and system-error notification all failed to be
\* delivered, and the run still returned
C3_Witness ==
    /\ pc = "done"
    /\ summary = "failed"
    /\ {"coinError", "systemError"} \subseteq lostAt

(***************************************************************************)
(* C4. Summary-notification failure is logged only: a run whose summary    *)
(* could not be delivered returns the result it returns when the summary   *)
(* is delivered (same ok, same succeeded list, same failure information).  *)
(***************************************************************************)
C4_SummaryFailureKeepsResult ==
    (pc = "done" /\ summary = "failed") => result = ResultAfterLoop

(***************************************************************************)
(* C5. In every result of a run that got past the shared stages, ok holds  *)
(* iff the failed list is empty, and coins is the succeeded list.          *)
(***************************************************************************)
C5_OkIffNoFailure ==
    (pc = "done" /\ shared = "none")
        => /\ result.ok <=> (failedCoins = <<>>)
           /\ result.coins = successfulCoins

(***************************************************************************)
(* C6. Sentiment parse degradation: when the sentiment response cannot be  *)
(* parsed the run does not abort: every item is still attempted and the    *)
(* result is not the parse error.                                          *)
(***************************************************************************)
C6_ParseFailureDegrades ==
    (pc = "done" /\ shared = "parse")
        => /\ attempted = IndexSeq(Len(coins))
           /\ result.error # "parse"

(***************************************************************************)
(* C7. Items are attempted one at a time, in list order, each exactly      *)
(* once: the invocations of analyzeCoin are 1, 2, .., k without repetition *)
(* or gap, and while item k is in progress exactly the k-1 items before it *)
(* are recorded as succeeded or failed.                                    *)
(***************************************************************************)
C7_InOrderExactlyOnce ==
    LET settled == Len(successfulCoins) + Len(failedCoins)
    IN  /\ attempted = IndexSeq(Len(attempted))
        /\ Len(attempted) <= Len(coins)
        /\ pc \in {"candles", "agent", "report", "coinError"}
              => /\ idx = Len(attempted)
                 /\ settled = idx - 1
        /\ pc = "itemSleep" => idx = Len(attempted) /\ settled = idx
        /\ pc = "loop" => idx = Len(attempted) + 1 /\ settled = idx - 1

C7_Witness ==
    /\ pc = "done"
    /\ attempted = <<1, 2, 3>>
    /\ failedCoins = <<coins[2]>>
    /\ successfulCoins = <<coins[1], coins[3]>>

(***************************************************************************)
(* C8. Retry bound: a call whose every attempt fails invokes fetch exactly *)
(* attempts times and then throws the error of the last attempt; it never  *)
(* invokes fetch more than attempts times, and a call that throws returned *)
(* nothing. Both fetchWithRetryEnhanced and fetchWithRetry.                *)
(***************************************************************************)
C8_RetryBound ==
    /\ rCalls <= rAttempts
    /\ rPc = "threw" => /\ rCalls = rAttempts
                        /\ rThrown = rAttempts
                        /\ rReturned = 0
    /\ (rPc = "returned") => (rReturned = rCalls /\ rThrown = 0)
    /\ (rPc \in {"attempt", "sleep"}) => (rReturned = 0 /\ rThrown = 0 /\ rCalls < rAttempts)

C8_Witness ==
    /\ rPc = "threw"
    /\ rAttempts = 3
    /\ rCalls = 3
    /\ rThrown = 3

(***************************************************************************)
(* C9. Backoff schedule: fetches and sleeps alternate, beginning with a    *)
(* fetch; the sleep after failed attempt i (0-indexed) lasts B * 2^i in    *)
(* fetchWithRetryEnhanced and B * (i+1) in fetchWithRetry; a finished call *)
(* ends with a fetch, so N failing attempts sleep exactly N-1 times.       *)
(***************************************************************************)
C9_BackoffSchedule ==
    /\ \A k \in 1..Len(rTrace) :
          IF k % 2 = 1
          THEN rTrace[k].ev = "fetch" /\ rTrace[k].attempt = (k + 1) \div 2
          ELSE /\ rTrace[k].ev = "sleep"
               /\ rTrace[k].ms = IF rVariant = "enhanced"
                                 THEN rBackoff * 2 ^ ((k \div 2) - 1)
                                 ELSE rBackoff * (k \div 2)
    /\ rPc \in {"returned", "threw"} => rTrace[Len(rTrace)].ev = "fetch"
    /\ rPc = "threw" => Len(rTrace) = 2 * rAttempts - 1

C9_Witness ==
    /\ rPc = "threw"
    /\ rVariant = "enhanced"
    /\ rBackoff = 500
    /\ rAttempts = 4
    /\ Len(rTrace) = 7
    /\ rTrace[2].ms = 500
    /\ rTrace[4].ms = 1000
    /\ rTrace[6].ms = 2000

\* failureThreshold calls in a row failed, the last one no more than
\* resetTimeout ago
Tripped ==
    /\ cbConsecutive >= cbFailureThreshold
    /\ cbNow - cbLastFailedAt <= cbResetTimeout

(***************************************************************************)
(* C10. Breaker trip: once failureThreshold calls in a row have failed,    *)
(* and while no more than resetTimeout has elapsed since the last failure, *)
(* the breaker is OPEN, no step invokes a wrapped operation (the count of  *)
(* invocations is frozen) and a call that is made is rejected; the breaker *)
(* becomes HALF_OPEN only when more than resetTimeout has elapsed since    *)
(* the last failure.                                                       *)
(***************************************************************************)
C10_BreakerTrip ==
    [][/\ Tripped => /\ cbState = "OPEN"
                     /\ cbInvocations' = cbInvocations
                     /\ cbState' # "HALF_OPEN"
                     /\ cbRejections' # cbRejections => cbInFlight' = cbInFlight
       /\ (cbState # "HALF_OPEN" /\ cbState' = "HALF_OPEN")
             => cbNow - cbLastFailedAt > cbResetTimeout]_vars

\* a call was rejected at the last instant of the timeout, after two
\* failures in a row, with the invocation count still at the two failed calls
C10_Witness ==
    /\ Tripped
    /\ cbFailureThreshold = 2
    /\ cbResetTimeout = 2
    /\ cbNow - cbLastFailedAt = cbResetTimeout
    /\ cbRejections >= 1
    /\ cbInvocations = 2
    /\ cbState = "OPEN"

(***************************************************************************)
(* C11. Breaker recovery: a call that finds the breaker OPEN with          *)
(* resetTimeout elapsed is not rejected, it makes the breaker HALF_OPEN    *)
(* and invokes its operation; a call that completes successfully while the *)
(* breaker is HALF_OPEN leaves it CLOSED with the failure counter at 0; a  *)
(* call that fails while the breaker is HALF_OPEN leaves it OPEN, with the *)
(* timeout counted from that failure, so that calls are rejected until a   *)
(* further full resetTimeout has passed.                                   *)
(***************************************************************************)
C11_BreakerRecovery ==
    [][ /\ (cbState = "OPEN" /\ cbNow - cbLastFailedAt > cbResetTimeout)
              => /\ cbRejections' = cbRejections
                 /\ cbInvocations' # cbInvocations
                       => cbState' = "HALF_OPEN" /\ cbInFlight' = cbInFlight + 1
        /\ (cbState = "HALF_OPEN" /\ cbInFlight' < cbInFlight /\ cbConsecutive' = 0)
              => cbState' = "CLOSED" /\ cbFailures' = 0
        /\ (cbState = "HALF_OPEN" /\ cbInFlight' < cbInFlight /\ cbConsecutive' # 0)
              => /\ cbState' = "OPEN"
                 /\ cbLastFailureTime' = cbNow
                 /\ cbFailures' >= cbFailureThreshold
        /\ (cbState = "OPEN" /\ cbNow - cbLastFailureTime <= cbResetTimeout)
              => cbInvocations' = cbInvocations /\ cbState' \in {"OPEN", "CLOSED"}
      ]_vars

C11_Witness ==
    /\ cbProbes = 1
    /\ cbState = "OPEN"
    /\ cbInFlight = 0
    /\ cbInvocations = cbFailureThreshold + 1
    /\ cbFailures = cbInvocations
    /\ cbLastFailureTime > cbResetTimeout + 1
    /\ cbRejections > 0

(***************************************************************************)
(* C12. While the breaker is HALF_OPEN the probe is in flight, and no      *)
(* other call invokes its operation.                                       *)
(***************************************************************************)
C12_SingleProbe == [][cbState = "HALF_OPEN" => cbInvocations' = cbInvocations]_vars

(***************************************************************************)
(* C13. In every reachable state of a breaker, whatever the interleaving   *)
(* of the calls and their outcomes, state = OPEN implies that the failure  *)
(* counter is at least failureThreshold.                                   *)
(***************************************************************************)
C13_OpenImpliesThreshold ==
    cbState = "OPEN" => cbFailures >= cbFailureThreshold

C13_Witness ==
    /\ cbState = "OPEN"
    /\ cbFailures > cbFailureThreshold
    /\ cbProbes = 0

\* the entries of a sequence of instants that lie in [t, t + windowMs)
InWindow(instants, t) ==
    {i \in 1..Len(instants) : t <= instants[i] /\ instants[i] < t + rlWindowMs}

(***************************************************************************)
(* C14. Rate limiter bound: no interval of length windowMs contains more   *)
(* than maxRequests admissions, and none contains more than maxRequests of *)
(* the instants recorded in the window.                                    *)
(***************************************************************************)
C14_WindowBound ==
    \A t \in 0..MaxClock :
       /\ Cardinality(InWindow(rlAdmissions, t)) <= rlMaxRequests
       /\ Cardinality(InWindow(rlRequests, t)) <= rlMaxRequests

\* the concatenation of a sequence of texts
RECURSIVE Concat(_)
Concat(texts) ==
    IF texts = <<>> THEN <<>> ELSE Head(texts) \o Concat(Tail(texts))

(***************************************************************************)
(* C15. Chunk round trip: for any text and any limit M >= 1, the chunks    *)
(* chunkForTelegram returns, concatenated in order, are the original text, *)
(* and every chunk has at most M characters.                               *)
(***************************************************************************)
C15_ChunkRoundTrip ==
    chPc = "returned"
       => /\ Concat(chChunks) = chHtml
          /\ \A k \in 1..Len(chChunks) : Len(chChunks[k]) <= chMaxLength

C15_Witness ==
    /\ chPc = "returned"
    /\ Len(chChunks) = 3
    /\ chCuts[1] < chMaxLength
    /\ chHtml[chCuts[1] + 1] = LineBreak

\* the offset at which the chunk number k starts
CutBefore(k) == IF k = 1 THEN 0 ELSE chCuts[k - 1]

\* the hard offset M of the candidate segment that starts at s
HardCut(s) == Min(s + chMaxLength, Len(chHtml))

\* the offsets of the line breaks that are at least d characters into the
\* candidate segment that starts at s, and at or before its offset M
BreaksFrom(s, d) ==
    {j \in (s + d)..HardCut(s) : j < Len(chHtml) /\ chHtml[j + 1] = LineBreak}

\* the segment that starts at s ends at the last of the line breaks in B, or
\* at the hard offset when B is empty
EndsAtLastOf(B, s, end) ==
    IF B = {} THEN end = HardCut(s) ELSE end \in B /\ \A j \in B : j <= end

(***************************************************************************)
(* C16 as stated. When the text exceeds M, a segment ends at the last line *)
(* break at or before offset M of the candidate segment whenever that line *)
(* break is at least 200 characters into the segment, and at the hard      *)
(* offset M otherwise.                                                     *)
(***************************************************************************)
C16_BreakAtLeast200 ==
    Len(chHtml) > chMaxLength
       => \A k \in 1..Len(chCuts) :
             LET s == CutBefore(k)
             IN  EndsAtLastOf(BreaksFrom(s, MinBreakOffset), s, chCuts[k])

(***************************************************************************)
(* C16 amended. When the text exceeds M, a segment ends at the last line   *)
(* break at or before offset M of the candidate segment whenever that line *)
(* break is more than 200 characters into the segment; if it is 200        *)
(* characters or less into the segment, or there is none, the segment is   *)
(* cut at the hard offset M (the end of the text if that comes first).     *)
(***************************************************************************)
C16_BreakBeyond200 ==
    Len(chHtml) > chMaxLength
       => \A k \in 1..Len(chCuts) :
             LET s == CutBefore(k)
             IN  /\ EndsAtLastOf(BreaksFrom(s, MinBreakOffset + 1), s, chCuts[k])
                 /\ chChunks[k] = Slice(chHtml, s, chCuts[k])

C16_Witness ==
    /\ chPc = "returned"
    /\ Len(chCuts) >= 2
    /\ BreaksFrom(0, MinBreakOffset) = {MinBreakOffset}
    /\ chCuts[1] = chMaxLength
    /\ BreaksFrom(chCuts[1], MinBreakOffset + 1) # {}
    /\ chCuts[2] < HardCut(chCuts[1])

(***************************************************************************)
(* C17. Ordered, fail-fast delivery: while sendTelegram sends chunk k,     *)
(* exactly the chunks 1..k-1 have been delivered, in that order; when the  *)
(* delivery of chunk k failed after its retries, sendTelegram ended with   *)
(* exactly the chunks before k delivered and the failure reached its       *)
(* caller: the catch of analyzeCoin for a report, the outer catch for the  *)
(* summary, sendErrorMessage for an error message.                         *)
(***************************************************************************)
C17_OrderedFailFast ==
    /\ pc \in TelegramPcs
          => /\ tgFailed = 0
             /\ tgIdx \in 1..tgTotal
             /\ tgSent = IndexSeq(tgIdx - 1)
    /\ (pc \notin TelegramPcs /\ tgFailed > 0)
          => /\ tgSent = IndexSeq(tgFailed - 1)
             /\ pc \in {"loop", "done"}
             /\ pc = "loop" => "coinError" \in lostAt
             /\ pc = "done" => "systemError" \in lostAt
    /\ (pc \notin TelegramPcs /\ tgFailed = 0) => tgSent = IndexSeq(Len(tgSent))
    /\ reportLost => pc \in {"coinError", "loop"}
    /\ (reportLost /\ pc = "coinError") => err = "telegram"
    /\ summary = "failed"
          => pc \in {"systemError", "done"} /\ err = "telegram"

\* the report was lost, then the second chunk of the error message
C17_Witness ==
    /\ pc = "loop"
    /\ reportLost
    /\ tgFailed = 2
    /\ tgSent = <<1>>

(***************************************************************************)
(* C18. A delivery failure of a coin's report is that coin's failure: the  *)
(* coin is counted as failed by analyzeCoin's catch, the loop records it   *)
(* in failedCoins and not in successfulCoins, and goes on to the next      *)
(* coin.                                                                   *)
(***************************************************************************)
C18_ReportFailureFailsItem ==
    reportLost
       => /\ pc \in {"coinError", "loop"}
          /\ pc = "coinError"
                => /\ idx \in stageFailed
                   /\ Len(successfulCoins) + Len(failedCoins) = idx - 1
          /\ pc = "loop"
                => /\ (idx - 1) \in stageFailed
                   /\ failedCoins = SymbolsAt(stageFailed)
                   /\ successfulCoins = SymbolsAt((1..(idx - 1)) \ stageFailed)
                   /\ idx <= Len(coins) => ENABLED LoopNext

\* the report of the second or a later coin was lost and coins remain
C18_Witness ==
    /\ reportLost
    /\ pc = "loop"
    /\ successfulCoins # <<>>
    /\ failedCoins = <<coins[idx - 1]>>
    /\ idx <= Len(coins)

\* five calls to Telegram failed in a row: the last three attempts for a
\* chunk of the report, then the first two for the error message; the next
\* call is due BackoffDelay = 1400 ms after the fifth failure
TelegramTripped ==
    /\ pc = "coinError"
    /\ reportLost
    /\ tgIdx = 1
    /\ Attempts + att >= DefaultFailureThreshold

(***************************************************************************)
(* C19. Outbound calls go through the dependency's circuit breaker: after  *)
(* failureThreshold consecutive failed calls to a dependency no call       *)
(* reaches it before resetTimeout has elapsed, so no chunk is delivered by *)
(* the attempt that follows five consecutive failures.                     *)
(***************************************************************************)
C19_CallsThroughBreaker ==
    [][TelegramTripped => tgSent' # Append(tgSent, tgIdx)]_vars

(***************************************************************************)
(* C20. POST /run answers 200 with ok = true exactly when handleRun's      *)
(* result is ok and 500 with ok = false in every other case; when          *)
(* handleRun returned, the body's coins field is the list of the coins     *)
(* that succeeded.                                                         *)
(***************************************************************************)
C20_ManualRunResponse ==
    response # NoResponse
       => /\ response.status \in {200, 500}
          /\ response.status = 200 <=> (pc = "done" /\ result.ok)
          /\ response.ok <=> response.status = 200
          /\ pc = "done" => response.hasCoins /\ response.coins = successfulCoins

(***************************************************************************)
(* C24. A retrying fetch returns the response of the first attempt that    *)
(* answers with a success status and makes no attempt after it; an attempt *)
(* that raises or answers with another status is followed by another one   *)
(* while attempts remain; when attempt k is the first to succeed, fetch    *)
(* was invoked exactly k times.                                            *)
(***************************************************************************)
C24_FirstSuccessReturns ==
    /\ rCalls = Len(rOutcomes)
    /\ \A j \in 1..Len(rOutcomes) :
          rOutcomes[j] = "ok" <=> (rPc = "returned" /\ rReturned = j)
    /\ rPc = "returned" => rReturned = Len(rOutcomes) /\ rCalls = rReturned
    /\ (Len(rOutcomes) > 0 /\ Len(rOutcomes) < rAttempts
           /\ rOutcomes[Len(rOutcomes)] # "ok")
          => rPc \in {"sleep", "attempt"}

C24_Witness ==
    /\ rPc = "returned"
    /\ rOutcomes = <<"status", "raise", "ok">>
    /\ rAttempts = 4
    /\ rCalls = 3

(***************************************************************************)
(* C25. Every attempt of a retrying fetch, successful or failed, has a log *)
(* entry that carries its attempt index, with the error when it failed.    *)
(***************************************************************************)
C25_EveryAttemptLogged ==
    \A j \in 1..Len(rOutcomes) :
       \E k \in 1..Len(rLog) :
          /\ rLog[k].attempt = j
          /\ rOutcomes[j] # "ok" => rLog[k].error = rOutcomes[j]

(***************************************************************************)
(* C26. execute fails with the circuit-open error only when it did not     *)
(* invoke the operation; a call that invoked the operation gives its       *)
(* caller the operation's result when it resolved and the operation's own  *)
(* error when it failed.                                                   *)
(***************************************************************************)
C26_RejectionIsDistinct ==
    [][ /\ cbRejections' # cbRejections
              => /\ cbLast' = "open"
                 /\ cbInvocations' = cbInvocations
                 /\ cbInFlight' = cbInFlight
        /\ cbInFlight' < cbInFlight
              => /\ cbLast' = IF cbConsecutive' = 0 THEN "result" ELSE "error"
                 /\ cbRejections' = cbRejections
        /\ (cbLast' = "open" /\ cbLast # "open")
              => cbRejections' = cbRejections + 1
      ]_vars

\* calls were rejected, then the probe was invoked and failed with its own error
C26_Witness ==
    /\ cbLast = "error"
    /\ cbState = "OPEN"
    /\ cbRejections > 0
    /\ cbProbes > 0

(***************************************************************************)
(* C27. The failure counter is the number of calls that failed since the   *)
(* last successful one: any success sets it to 0, a Closed breaker has     *)
(* fewer than failureThreshold of them and an Open one at least            *)
(* failureThreshold, so that after a success a fresh run of                *)
(* failureThreshold failures is needed to open it.                         *)
(***************************************************************************)
C27_SuccessResetsCounter ==
    /\ cbFailures = cbConsecutive
    /\ cbState = "CLOSED" => cbConsecutive < cbFailureThreshold
    /\ cbState = "OPEN" => cbConsecutive >= cbFailureThreshold

\* four calls, no probe: a success, then the two failures that opened it
C27_Witness ==
    /\ cbState = "OPEN"
    /\ cbFailureThreshold = 2
    /\ cbFailures = 2
    /\ cbInvocations = 4
    /\ cbInFlight = 0
    /\ cbProbes = 0
    /\ cbRejections = 0

(***************************************************************************)
(* C28. Whenever waitForSlot admits a caller, the instant it records in    *)
(* the window is the instant of the admission: the current instant for a   *)
(* call below capacity, the instant after the wait for a call that was     *)
(* suspended.                                                              *)
(***************************************************************************)
C28_RecordsAdmissionInstant ==
    [][Len(rlAdmissions') > Len(rlAdmissions)
          => rlRequests'[Len(rlRequests')] = rlNow']_vars

(***************************************************************************)
(* C29. Every call of waitForSlot admits its caller: no call is lost or    *)
(* raises, a call that was suspended is admitted when it resumes without   *)
(* being suspended again, and every call made is eventually admitted.      *)
(***************************************************************************)
C29_EveryCallAdmitted ==
    /\ [](Len(rlAdmissions) + Len(rlWaiting) = rlCalls)
    /\ [][(rlWaiting' # rlWaiting /\ rlCalls' = rlCalls)
             => /\ Len(rlWaiting') = Len(rlWaiting) - 1
                /\ Len(rlAdmissions') = Len(rlAdmissions) + 1]_vars
    /\ \A n \in 1..MaxAcquisitions :
          (rlCalls >= n) ~> (Len(rlAdmissions) >= n)

\* two calls were suspended on a full window and both have been admitted
C29_Witness ==
    /\ rlCalls = 3
    /\ Len(rlAdmissions) = 3
    /\ rlWaiting = <<>>
    /\ rlMaxRequests = 1
    /\ rlAdmissions[2] > 1
    /\ rlAdmissions[3] = rlAdmissions[2]

(***************************************************************************)
(* C30. Between every two consecutive items the pipeline pauses: the loop  *)
(* starts a later item only after the inter-item sleep, whether the        *)
(* earlier item succeeded or failed.                                       *)
(***************************************************************************)
C30_PauseBetweenItems ==
    [][(pc' = "loop" /\ pc # "loop" /\ idx' > 1 /\ idx' <= Len(coins))
          => pc = "itemSleep"]_vars

\* the catch block of each shared stage
SharedErrorPc ==
    [news |-> "newsError", sentiment |-> "sentimentError", parse |-> "parseError"]

(***************************************************************************)
(* C21. Every failure is logged and notified before the run moves on:      *)
(* each item in the failed list was logged by analyzeCoin's catch and had  *)
(* its error message attempted before the loop went to the next item; a    *)
(* failed shared stage was logged and had its message attempted before the *)
(* outer catch was entered; and a fatal failure was logged and had its     *)
(* "System Error" message attempted before handleRun returned.             *)
(***************************************************************************)
C21_FailuresLoggedAndNotified ==
    /\ Cardinality({i \in 1..(idx - 1) :
                       <<"coinError", i>> \in logged \cap notified})
          = Len(failedCoins)
    /\ (shared # "none" /\ pc \in {"systemError", "done", "raised"})
          => <<SharedErrorPc[shared], 0>> \in logged \cap notified
    /\ (pc \in {"done", "raised"} /\ (shared # "none" \/ summary = "failed"))
          => <<"systemError", 0>> \in logged \cap notified

\* two items failed, one of their messages could not be delivered, and the
\* summary failed, which is fatal
C21_Witness ==
    /\ pc = "done"
    /\ Len(failedCoins) = 2
    /\ "coinError" \in lostAt
    /\ summary = "failed"

\* the stages of one item, in order
StageChain == TimeframeIds \o <<"agent", "report">>

IsChainPrefix(stages) ==
    /\ Len(stages) <= Len(StageChain)
    /\ \A k \in 1..Len(stages) : stages[k] = StageChain[k]

(***************************************************************************)
(* C23. The stages of an item run in the order 15m, 1h, 1d, analysis       *)
(* model, report delivery, and a stage starts only when every earlier      *)
(* stage of the item returned real data: when a stage fails after its      *)
(* retries it is the last stage of the item that ran, and nothing is put   *)
(* in place of its data.                                                   *)
(***************************************************************************)
C23_StagesFailFast ==
    /\ IsChainPrefix(stagesRun)
    /\ IsChainPrefix(stagesDone)
    /\ Len(stagesDone) <= Len(stagesRun)
    /\ Len(stagesRun) <= Len(stagesDone) + 1
    /\ pc = "coinError" => Len(stagesRun) = Len(stagesDone) + 1
    /\ pc = "agent" => Len(stagesDone) >= NumTimeframes
    /\ pc = "report" => Len(stagesDone) >= NumTimeframes + 1
    /\ pc = "itemSleep" => stagesDone = StageChain

\* the 1h candles failed after their retries: no later stage of the item ran
C23_Witness ==
    /\ pc = "coinError"
    /\ err = "candles"
    /\ stagesRun = <<"15m", "1h">>
    /\ stagesDone = <<"15m">>

(***************************************************************************)
(* C22. No two outbound calls to the same dependency are in flight at the  *)
(* same time, whichever entry point started the runs that make them.       *)
(***************************************************************************)
C22_OneCallPerDependency ==
    \A r1, r2 \in Runs :
       (r1 # r2 /\ wCall[r1] # "none") => wCall[r1] # wCall[r2]

(***************************************************************************)
(* C33. A call rejected because the breaker is OPEN leaves the state, the  *)
(* failure counter and the last-failure time unchanged, so rejections do   *)
(* not postpone the moment at which the breaker may become HALF_OPEN.      *)
(***************************************************************************)
C33_RejectionChangesNothing ==
    [][cbRejections' # cbRejections
          => /\ UNCHANGED <<cbState, cbFailures, cbLastFailureTime>>
             /\ cbLastFailureTime = cbLastFailedAt]_vars

\* two calls were rejected, the last one at the end of the timeout, and the
\* probe went through one tick later
C33_Witness ==
    /\ cbRejections = 2
    /\ cbState = "HALF_OPEN"
    /\ cbProbes = 1
    /\ cbResetTimeout > 0
    /\ cbNow = cbLastFailedAt + cbResetTimeout + 1

(***************************************************************************)
(* C34. The breaker leaves OPEN only through HALF_OPEN: no step takes it   *)
(* from OPEN directly to CLOSED, also when a call started before the trip  *)
(* completes after it.                                                     *)
(***************************************************************************)
C34_OpenOnlyToHalfOpen ==
    [][cbState = "OPEN" => cbState' # "CLOSED"]_vars

(***************************************************************************)
(* C40. RateLimiter.requests is in non-decreasing order at all times, so   *)
(* requests[0] is the oldest instant recorded.                             *)
(***************************************************************************)
C40_RequestsSorted ==
    \A i, j \in 1..Len(rlRequests) : i < j => rlRequests[i] <= rlRequests[j]

(***************************************************************************)
(* C37. For every text and every M >= 1, chunkForTelegram terminates:      *)
(* every iteration of its loop moves start strictly forward, no chunk is   *)
(* empty unless the text is empty, and the call returns.                   *)
(***************************************************************************)
C37_ChunkerTerminates ==
    /\ [][chPc = "loop" /\ chPc' = "loop"
             => /\ chStart' > chStart
                /\ chStart' <= Len(chHtml)]_vars
    /\ [](\A k \in 1..Len(chChunks) : chChunks[k] = <<>> => chHtml = <<>>)
    /\ <>(chPc = "returned")

\* a text cut three times, once at a line break, has been returned
C37_Witness ==
    /\ chPc = "returned"
    /\ Len(chChunks) = 3
    /\ chCuts[2] < chCuts[1] + chMaxLength
    /\ chCuts[3] = Len(chHtml)

(***************************************************************************)
(* C38. When the text still to be emitted is at most M characters long it  *)
(* is emitted as one final chunk: the chunk that starts there ends at the  *)
(* end of the text.                                                        *)
(***************************************************************************)
C38_RemainderInOneChunk ==
    \A k \in 1..Len(chCuts) :
       Len(chHtml) - CutBefore(k) <= chMaxLength => chCuts[k] = Len(chHtml)

(***************************************************************************)
(* C31. The summary is sent exactly when at least one item succeeded,      *)
(* once, and only after the last item has been attempted: sendTelegram is  *)
(* entered for the summary only with a non-empty succeeded list and every  *)
(* item attempted, a summary that was sent or failed is never started      *)
(* again, and a run that got through the loop returns with a summary       *)
(* attempted iff some item succeeded.                                      *)
(***************************************************************************)
C31_SummaryIffSuccess ==
    /\ pc = "summary"
          => /\ Len(successfulCoins) > 0
             /\ attempted = IndexSeq(Len(coins))
             /\ idx = Len(coins) + 1
             /\ summary = "none"
    /\ summary # "none"
          => /\ Len(successfulCoins) > 0
             /\ attempted = IndexSeq(Len(coins))
             /\ pc \in {"systemError", "done"}
    /\ (pc = "done" /\ shared = "none")
          => (summary # "none" <=> Len(successfulCoins) > 0)

\* a run with succeeded and failed items sent its summary and returned
C31_Witness ==
    /\ pc = "done"
    /\ summary = "sent"
    /\ Len(successfulCoins) = 2
    /\ Len(failedCoins) = 1

(***************************************************************************)
(* C35. The succeeded list and the failed list partition the items         *)
(* settled so far and keep the order of the item list: they hold exactly   *)
(* the items attempted, less the one in progress, and all items once the   *)
(* loop has finished.                                                      *)
(***************************************************************************)
C35_ListsPartitionItems ==
    LET n == Len(successfulCoins) + Len(failedCoins)
        inProgress == IF pc \in {"candles", "agent", "report", "coinError"}
                      THEN 1 ELSE 0
    IN  /\ n <= Len(coins)
        /\ \E S \in SUBSET (1..n) :
              /\ successfulCoins = SymbolsAt(S)
              /\ failedCoins = SymbolsAt((1..n) \ S)
        /\ n = Len(attempted) - inProgress
        /\ (shared = "none" /\ pc \in {"summary", "systemError", "done"})
              => n = Len(coins)

\* the loop has finished over four items, two in each list
C35_Witness ==
    /\ pc = "summary"
    /\ Len(coins) = 4
    /\ successfulCoins = <<coins[1], coins[3]>>
    /\ failedCoins = <<coins[2], coins[4]>>

(***************************************************************************)
(* C39. sendErrorMessage never raises: whether or not the error message    *)
(* could be delivered, the catch block that sent it goes on as written.    *)
(* The item's catch rethrows to the loop, which records the item as failed *)
(* and takes the next one; a shared stage's catch rethrows its own error   *)
(* to the outer catch; the outer catch returns that error.                 *)
(***************************************************************************)
C39_ErrorMessageNeverRaises ==
    [][(pc \in ErrorMessagePcs /\ pc' # pc)
          => CASE pc = "coinError" ->
                     /\ pc' = "loop"
                     /\ idx' = idx + 1
                     /\ failedCoins' = Append(failedCoins, coins[idx])
               [] pc = "systemError" ->
                     /\ pc' = "done"
                     /\ result'.ok = FALSE
                     /\ result'.error = err
               [] OTHER ->
                     /\ pc' = "systemError"
                     /\ err' = err]_vars

\* neither the news error message nor the system error message could be
\* delivered, and the run returned the news error
C39_Witness ==
    /\ pc = "done"
    /\ {"newsError", "systemError"} \subseteq lostAt
    /\ result.error = "news"

\* most outbound calls of one sendTelegram
MaxTelegramCalls == MaxChunks * Attempts

\* most outbound calls for one item: candles, agent, report, error message
MaxItemCalls == NumTimeframes * Attempts + Attempts + 2 * MaxTelegramCalls

\* most outbound calls of a run over n items
MaxRunCalls(n) == 2 * Attempts + n * MaxItemCalls + 2 * MaxTelegramCalls

\* most outbound calls still to come once item i is settled
CallsAfterItem(i) == (Len(coins) - i) * MaxItemCalls + 2 * MaxTelegramCalls

\* most outbound calls the run can still make from the current state
CallsLeft ==
    LET attemptsLeft == Attempts - att
        here == CASE pc \in {"news", "sentiment", "agent"} -> attemptsLeft
                  [] pc = "candles" -> (NumTimeframes - tf) * Attempts + attemptsLeft
                  [] pc \in TelegramPcs -> (tgTotal - tgIdx) * Attempts + attemptsLeft
                  [] OTHER -> 0
        later == CASE pc = "news" -> Attempts + CallsAfterItem(0)
                   [] pc \in {"sentiment", "parse"} -> CallsAfterItem(0)
                   [] pc = "loop" -> CallsAfterItem(idx - 1)
                   [] pc = "candles" ->
                         Attempts + 2 * MaxTelegramCalls + CallsAfterItem(idx)
                   [] pc = "agent" -> 2 * MaxTelegramCalls + CallsAfterItem(idx)
                   [] pc = "report" -> MaxTelegramCalls + CallsAfterItem(idx)
                   [] pc \in {"coinError", "itemSleep"} -> CallsAfterItem(idx)
                   [] pc \in {"newsError", "sentimentError", "parseError", "summary"} ->
                         MaxTelegramCalls
                   [] OTHER -> 0
    IN  here + later

(***************************************************************************)
(* C36. Every run of handleRun returns: no call is attempted more than     *)
(* three times, every step that makes an outbound call lowers a bound on   *)
(* the calls still to come that starts at a function of the number of      *)
(* items, timeframes and segments, no other step raises it, and a run      *)
(* whose calls and sleeps all end reaches its return.                      *)
(***************************************************************************)
C36_RunTerminates ==
    /\ [](att < Attempts /\ CallsLeft >= 0 /\ CallsLeft <= MaxRunCalls(Len(coins)))
    /\ [][IF pc \in {"parse", "loop", "itemSleep", "done"}
            THEN CallsLeft' <= CallsLeft
            ELSE CallsLeft' < CallsLeft]_vars
    /\ <>(pc = "done")

\* a run in which a call used all three attempts has returned
C36_Witness ==
    /\ pc = "done"
    /\ result.error = "Failed to analyze"
    /\ Len(coins) = 3
    /\ Len(failedCoins) = 3
    /\ lostAt = {"coinError"}

(***************************************************************************)
(* C32. handleTelegramWebhook answers every update it could decode with    *)
(* status 200, whatever the outcome of the analysis and of the deliveries  *)
(* of the acknowledgement and of the reply.                                *)
(***************************************************************************)
C32_WebhookAlways200 ==
    (whPc = "done" /\ whUpdate # "malformed") => whStatus = 200

====
